---- MODULE Spec2Model ----
(***************************************************************************)
(* SEIR epidemic with a distancing event, as described three times in      *)
(* distancing.py (CMS EMODL text, GillesPy2 SEIR class, StochPy PySCeS     *)
(* text), and the CMS solver loop quoted in run_cms (Solve / SolveOnce /   *)
(* StepOnce).                                                              *)
(*                                                                         *)
(* Rates are exact rationals <<numerator, denominator>>.  Time is counted  *)
(* in half sample intervals: tick 2k is the k-th sample time exactly, tick *)
(* 2k+1 stands for every instant strictly between samples k and k+1.  A    *)
(* reaction time is a continuous draw, so it lies on an odd tick; several  *)
(* reactions may share an odd tick (distinct instants of one interval).    *)
(***************************************************************************)
EXTENDS Integers, Sequences, FiniteSets, TLC

\* ------------------------------------------------------------ bounds
\* The source runs 10000 individuals, trigger level 100, 180 time units and
\* 10 realizations; the model keeps the structure and scales these four.
TOTAL_POPULATION == 4
TRIGGER_LEVEL == 1
END_TIME == 2
REALIZATIONS == 2
\* Approximate leaping: most firings of one reaction in a leap, and retries
\* (tau halved) before the step falls back to the exact algorithm.
MaxFirings == 2
MaxRetries == 1

\* ------------------------------------------------- program constants
INITIAL_INFECTIOUS == 2
MEAN_INCUBATION_PERIOD == 4
MEAN_INFECTIOUS_PERIOD == 6
START_TIME == 0

\* --------------------------------------------------------- rationals
RECURSIVE GCD(_, _)
GCD(a, b) == IF b = 0 THEN a ELSE GCD(b, a % b)

RNorm(q) == IF q[1] = 0 THEN <<0, 1>>
            ELSE LET g == GCD(q[1], q[2]) IN <<q[1] \div g, q[2] \div g>>
RInt(n) == <<n, 1>>
RDiv(a, b) == RNorm(<<a[1] * b[2], a[2] * b[1]>>)
RSub(a, b) == RNorm(<<a[1] * b[2] - b[1] * a[2], a[2] * b[2]>>)
RScale(a, n, d) == RNorm(<<a[1] * n, a[2] * d>>)
RPositive(a) == a[1] > 0

R0 == RNorm(<<24, 10>>)
SYMPTOMATIC_FRACTION == RDiv(RInt(1), RInt(5))
DISTANCING_R0 == RNorm(<<8, 10>>)

Species == {"S", "E", "Y", "A", "I", "C", "R"}

POPULATIONS ==
  [S |-> TOTAL_POPULATION - INITIAL_INFECTIOUS, E |-> 0, Y |-> 0, A |-> 0,
   I |-> INITIAL_INFECTIOUS, C |-> INITIAL_INFECTIOUS, R |-> 0]

TIMESTEPS == (END_TIME - START_TIME) + 1

\* ------------------------------------------- the three descriptions
Libraries == {"cms", "gillespy", "stochpy"}

Count(list, s) == Cardinality({i \in DOMAIN list : list[i] = s})

\* Net change of species s when reaction r fires once.
Net(r, s) == Count(r.products, s) - Count(r.reactants, s)

\* The stoichiometry of a reaction list, reaction by reaction.
Stoichiometry(reactions) ==
  [j \in DOMAIN reactions |-> [s \in Species |-> Net(reactions[j], s)]]

\* A reaction: reactants and products (one individual per listed species),
\* and propensity  rate * product(factors) / sum(denom)  (denom <<>>: 1).
\* recovery written without its product: I leaves the population
CmsReactionsNoProduct ==
  << [name |-> "transmission", reactants |-> <<"S">>, products |-> <<"E">>,
      rate |-> "Ki", factors |-> <<"S", "I">>, denom |-> <<"S", "E", "I", "R">>],
     [name |-> "infectious_a", reactants |-> <<"E">>, products |-> <<"I", "A", "C">>,
      rate |-> "Ka", factors |-> <<"E">>, denom |-> <<>>],
     [name |-> "infectious_s", reactants |-> <<"E">>, products |-> <<"I", "Y", "C">>,
      rate |-> "Ky", factors |-> <<"E">>, denom |-> <<>>],
     [name |-> "recovery", reactants |-> <<"I">>, products |-> <<>>,
      rate |-> "Kr", factors |-> <<"I">>, denom |-> <<>>] >>

\* infectious_s with rate (* Ky I): positive while E is empty
CmsReactionsWrongFactor ==
  << [name |-> "transmission", reactants |-> <<"S">>, products |-> <<"E">>,
      rate |-> "Ki", factors |-> <<"S", "I">>, denom |-> <<"S", "E", "I", "R">>],
     [name |-> "infectious_a", reactants |-> <<"E">>, products |-> <<"I", "A", "C">>,
      rate |-> "Ka", factors |-> <<"E">>, denom |-> <<>>],
     [name |-> "infectious_s", reactants |-> <<"E">>, products |-> <<"I", "Y", "C">>,
      rate |-> "Ky", factors |-> <<"I">>, denom |-> <<>>],
     [name |-> "recovery", reactants |-> <<"I">>, products |-> <<"R">>,
      rate |-> "Kr", factors |-> <<"I">>, denom |-> <<>>] >>

CmsReactions ==
  << [name |-> "transmission", reactants |-> <<"S">>, products |-> <<"E">>,
      rate |-> "Ki", factors |-> <<"S", "I">>, denom |-> <<"S", "E", "I", "R">>],
     [name |-> "infectious_a", reactants |-> <<"E">>, products |-> <<"I", "A", "C">>,
      rate |-> "Ka", factors |-> <<"E">>, denom |-> <<>>],
     [name |-> "infectious_s", reactants |-> <<"E">>, products |-> <<"I", "Y", "C">>,
      rate |-> "Ky", factors |-> <<"E">>, denom |-> <<>>],
     [name |-> "recovery", reactants |-> <<"I">>, products |-> <<"R">>,
      rate |-> "Kr", factors |-> <<"I">>, denom |-> <<>>] >>

CmsParams ==
  [Ki |-> RDiv(R0, RInt(MEAN_INFECTIOUS_PERIOD)),
   Ke |-> RDiv(RInt(1), RInt(MEAN_INCUBATION_PERIOD)),
   Ky |-> RDiv(SYMPTOMATIC_FRACTION, RInt(MEAN_INCUBATION_PERIOD)),
   Ka |-> RDiv(RSub(RInt(1), SYMPTOMATIC_FRACTION), RInt(MEAN_INCUBATION_PERIOD)),
   Ks |-> SYMPTOMATIC_FRACTION,
   Kr |-> RDiv(RInt(1), RInt(MEAN_INFECTIOUS_PERIOD)),
   V  |-> RInt(0)]

\* the trigger written (>= Y 100)
CmsEventAtLevel ==
  [name |-> "sia", species |-> "Y", level |-> TRIGGER_LEVEL - 1, delay |-> 0,
   target |-> "Ki", value |-> RDiv(DISTANCING_R0, RInt(MEAN_INFECTIOUS_PERIOD)),
   persistent |-> FALSE]

\* (state-event sia (> Y 100) ((Ki {0.8/MEAN_INFECTIOUS_PERIOD})))
CmsEvent ==
  [name |-> "sia", species |-> "Y", level |-> TRIGGER_LEVEL, delay |-> 0,
   target |-> "Ki", value |-> RDiv(DISTANCING_R0, RInt(MEAN_INFECTIOUS_PERIOD)),
   persistent |-> FALSE]

CmsModel ==
  [species |-> POPULATIONS, params |-> CmsParams, reactions |-> CmsReactions,
   net |-> Stoichiometry(CmsReactions), event |-> CmsEvent, solver |-> "SSA"]

\* GillesPy2: species susceptible, exposed, symptomatic, asymptomatic,
\* infectious, cases, recovered are written S, E, Y, A, I, C, R here.
\* transmissive_symptomatic without the cases product
GillespyReactionsNoCase ==
  << [name |-> "transmission", reactants |-> <<"S">>, products |-> <<"E">>,
      rate |-> "Ki", factors |-> <<"S", "I">>, denom |-> <<"S", "E", "I", "R">>],
     [name |-> "transmissive_asymptomatic", reactants |-> <<"E">>,
      products |-> <<"A", "I", "C">>,
      rate |-> "Ka", factors |-> <<"E">>, denom |-> <<>>],
     [name |-> "transmissive_symptomatic", reactants |-> <<"E">>,
      products |-> <<"Y", "I">>,
      rate |-> "Ky", factors |-> <<"E">>, denom |-> <<>>],
     [name |-> "recovery", reactants |-> <<"I">>, products |-> <<"R">>,
      rate |-> "Kr", factors |-> <<"I">>, denom |-> <<>>] >>

GillespyReactions ==
  << [name |-> "transmission", reactants |-> <<"S">>, products |-> <<"E">>,
      rate |-> "Ki", factors |-> <<"S", "I">>, denom |-> <<"S", "E", "I", "R">>],
     [name |-> "transmissive_asymptomatic", reactants |-> <<"E">>,
      products |-> <<"A", "I", "C">>,
      rate |-> "Ka", factors |-> <<"E">>, denom |-> <<>>],
     [name |-> "transmissive_symptomatic", reactants |-> <<"E">>,
      products |-> <<"Y", "I", "C">>,
      rate |-> "Ky", factors |-> <<"E">>, denom |-> <<>>],
     [name |-> "recovery", reactants |-> <<"I">>, products |-> <<"R">>,
      rate |-> "Kr", factors |-> <<"I">>, denom |-> <<>>] >>

GillespyParams ==
  [Ki |-> RDiv(R0, RInt(MEAN_INFECTIOUS_PERIOD)),
   Ky |-> RDiv(SYMPTOMATIC_FRACTION, RInt(MEAN_INCUBATION_PERIOD)),
   Ka |-> RDiv(RSub(RInt(1), SYMPTOMATIC_FRACTION), RInt(MEAN_INCUBATION_PERIOD)),
   Ks |-> SYMPTOMATIC_FRACTION,
   Kr |-> RDiv(RInt(1), RInt(MEAN_INFECTIOUS_PERIOD)),
   vaccinated |-> RInt(0)]

GillespyEvent ==
  [name |-> "distancing", species |-> "Y", level |-> TRIGGER_LEVEL, delay |-> 0,
   target |-> "Ki", value |-> RDiv(DISTANCING_R0, RInt(MEAN_INFECTIOUS_PERIOD)),
   persistent |-> TRUE]

SEIR ==
  [species |-> POPULATIONS, params |-> GillespyParams,
   reactions |-> GillespyReactions, net |-> Stoichiometry(GillespyReactions),
   event |-> GillespyEvent,
   solver |-> "TauHybrid"]

\* StochPy: the PySCeS text gives every number as a decimal literal.
StochpyReactions ==
  << [name |-> "transmission", reactants |-> <<"S">>, products |-> <<"E">>,
      rate |-> "Ki", factors |-> <<"S", "I">>, denom |-> <<"S", "E", "I", "R">>],
     [name |-> "transmissive_a", reactants |-> <<"E">>, products |-> <<"I", "A", "C">>,
      rate |-> "Ka", factors |-> <<"E">>, denom |-> <<>>],
     [name |-> "transmissive_s", reactants |-> <<"E">>, products |-> <<"I", "Y", "C">>,
      rate |-> "Ky", factors |-> <<"E">>, denom |-> <<>>],
     [name |-> "recovery", reactants |-> <<"I">>, products |-> <<"R">>,
      rate |-> "Kr", factors |-> <<"I">>, denom |-> <<>>] >>

StochpyPopulations ==
  [S |-> TOTAL_POPULATION - 2, E |-> 0, Y |-> 0, A |-> 0, I |-> 2, C |-> 2, R |-> 0]

StochpyParams ==
  [Ki |-> RNorm(<<4, 10>>),
   Ke |-> RNorm(<<25, 100>>),
   Ka |-> RNorm(<<2, 10>>),
   Ky |-> RNorm(<<5, 100>>),
   Kr |-> RNorm(<<167, 1000>>)]

StochpyEvent ==
  [name |-> "sia", species |-> "Y", level |-> TRIGGER_LEVEL, delay |-> 0,
   target |-> "Ki", value |-> RNorm(<<32, 100>>), persistent |-> FALSE]

StochpyModel ==
  [species |-> StochpyPopulations, params |-> StochpyParams,
   reactions |-> StochpyReactions, net |-> Stoichiometry(StochpyReactions),
   event |-> StochpyEvent,
   solver |-> "tauleap"]

Description(l) ==
  CASE l = "cms" -> CmsModel
    [] l = "gillespy" -> SEIR
    [] l = "stochpy" -> StochpyModel


\* ------------------------------------------------------ propensities
RECURSIVE ProdPop(_, _)
ProdPop(pop, list) ==
  IF list = <<>> THEN 1 ELSE pop[Head(list)] * ProdPop(pop, Tail(list))

RECURSIVE SumPop(_, _)
SumPop(pop, list) ==
  IF list = <<>> THEN 0 ELSE pop[Head(list)] + SumPop(pop, Tail(list))

\* The rate expression as written: rate * product(factors) / sum(denom).
\* An undefined value (zero denominator) counts as zero.
Propensity(r, pop, params) ==
  IF r.denom # <<>> /\ SumPop(pop, r.denom) = 0 THEN <<0, 1>>
  ELSE RScale(params[r.rate], ProdPop(pop, r.factors),
              IF r.denom = <<>> THEN 1 ELSE SumPop(pop, r.denom))

ReactionIds(d) == DOMAIN d.reactions

\* The reactions of positive propensity.
Active(m, d) ==
  {j \in ReactionIds(d) :
     RPositive(Propensity(d.reactions[j], m.species, m.params))}

\* a0 = 0: no reaction can fire
NoRate(m, d) == Active(m, d) = {}

RECURSIVE PlanNet(_, _, _, _)
PlanNet(d, plan, s, j) ==
  IF j = 0 THEN 0
  ELSE plan[j] * d.net[j][s] + PlanNet(d, plan, s, j - 1)

ApplyPlan(pop, d, plan) ==
  [s \in Species |-> pop[s] + PlanNet(d, plan, s, Len(d.reactions))]

NoFiring(d) == [j \in ReactionIds(d) |-> 0]
OneFiring(d, i) == [j \in ReactionIds(d) |-> IF j = i THEN 1 ELSE 0]

\* --------------------------------------------------------- the solver
\* lib: the description being run; pc: where Solve() stands; solver: the
\* solver object (clock, model state, event state, sampling position,
\* trajectories).  Its last fields are history kept for the properties:
\*   firings    event firings applied in this realization
\*   kiChanges  times the value of Ki changed in this realization
\*   staleRate  propensities were computed while a due firing was pending
\*   staleTrig  due firings were looked up before the trigger was
\*              re-evaluated on the populations in force
\*   inForce    per sample time, the populations set by the latest jump
\*              record before it (the initial values when there is none)
\*   crossed    the trigger species has exceeded the trigger level
\*   rateKi     the value of Ki the latest propensities were computed from
\*   maxFill    most sample times one RecordObservables call has filled
VARIABLES lib, pc, solver

vars == <<lib, pc, solver>>

\* config: runs, duration (in ticks), samples
runs == REALIZATIONS
duration == 2 * (END_TIME - START_TIME)
samples == TIMESTEPS
SampleTick(k) == 2 * k
Ticks == 0 .. duration
OffGrid(t) == t % 2 = 1

Trigger(ev, pop) == pop[ev.species] > ev.level

\* ResetModelState(): species, parameters and event state back to the
\* model's initial values.
ResetModelState(m, d) ==
  [m EXCEPT !.species = d.species, !.params = d.params,
            !.lastTrigger = FALSE, !.firedOnce = FALSE, !.scheduled = {},
            !.SamplingParams = 0,
            !.kiChanges = 0, !.firings = 0, !.crossed = FALSE,
            !.rateKi = d.params.Ki, !.maxFill = 0,
            !.inForce = [k \in 1 .. samples |-> d.species]]

\* solvers.CreateSolver(solver, model, runs, duration, samples)
CreateSolver(d) ==
  [curRealization |-> 1, CurrentTime |-> 0,
   species |-> d.species, params |-> d.params,
   lastTrigger |-> FALSE, firedOnce |-> FALSE, scheduled |-> {},
   SamplingParams |-> 0,
   trajectories |-> [r \in 1 .. runs |-> <<>>],
   kiChanges |-> 0, firings |-> 0, staleRate |-> FALSE, staleTrig |-> FALSE,
   crossed |-> FALSE, rateKi |-> d.params.Ki, maxFill |-> 0,
   inForce |-> [k \in 1 .. samples |-> d.species]]

\* the clock is reset, the model state is not
StartRealizationNoReset(m, d) ==
  [m EXCEPT !.CurrentTime = 0, !.SamplingParams = 0]

\* StartRealization(); // sets CurrentTime to 0.0 and calls ResetModelState()
StartRealizationOf(m, d) ==
  ResetModelState([m EXCEPT !.CurrentTime = 0], d)

DueEvents(m) == {t \in m.scheduled : t <= m.CurrentTime}

\* Applies the assignments of every firing that is due.
ExecuteScheduledEvents(m, d) ==
  LET seen == [m EXCEPT !.staleTrig =
                 m.staleTrig \/ Trigger(d.event, m.species) # m.lastTrigger]
  IN IF DueEvents(m) = {} THEN seen
     ELSE [seen EXCEPT
             !.params[d.event.target] = d.event.value,
             !.scheduled = m.scheduled \ DueEvents(m),
             !.firedOnce = TRUE,
             !.firings = m.firings + 1,
             !.kiChanges = m.kiChanges +
                (IF m.params[d.event.target] # d.event.value THEN 1 ELSE 0)]

RECURSIVE SetMin(_)
SetMin(S) ==
  LET x == CHOOSE y \in S : TRUE
  IN IF S = {x} THEN x
     ELSE LET r == SetMin(S \ {x}) IN IF x < r THEN x ELSE r

TimeOfNextEvent(m) == SetMin(m.scheduled \cup {duration})

\* Instants a positive waiting time can lead to before the limit.
JumpTimes(m, tauLimit) ==
  {u \in Ticks : OffGrid(u) /\ u >= m.CurrentTime /\ u < tauLimit}

\* The exact (direct) method: the possible proposals [tau, plan].  With
\* a0 = 0 time goes to the limit; otherwise the waiting time is a positive
\* draw, capped at the limit, and one reaction of positive propensity fires.
ExactProposals(m, d, tauLimit) ==
  UNION {IF active = {} THEN {[tau |-> tauLimit, plan |-> NoFiring(d)]}
         ELSE {[tau |-> t, plan |-> OneFiring(d, j)] :
                 t \in JumpTimes(m, tauLimit), j \in active}
              \cup {[tau |-> tauLimit, plan |-> NoFiring(d)]} :
         active \in {Active(m, d)}}

\* Firing counts a leap can draw: Poisson with mean a_j * tau, so zero for a
\* reaction of zero propensity.
LeapPlans(m, d) ==
  UNION {{[j \in ReactionIds(d) |-> IF j \in active THEN k[j] ELSE 0] :
            k \in [active -> 0 .. MaxFirings]} :
         active \in {Active(m, d)}}

Feasible(m, d, k) == \A s \in Species : ApplyPlan(m.species, d, k)[s] >= 0

\* After a leap that would make a population negative: tau is halved and the
\* leap drawn again, n more times, then the step is done exactly.
RECURSIVE HalveAndRetry(_, _, _)
HalveAndRetry(accepted, exact, n) ==
  IF n = 0 THEN accepted \cup exact
  ELSE accepted \cup HalveAndRetry(accepted, exact, n - 1)

\* The leaps that may be applied, given the plans that keep every
\* population non-negative.
AcceptedLeaps(m, d, tauLimit, good) ==
  {[tau |-> t, plan |-> k] : t \in JumpTimes(m, tauLimit), k \in good}
  \cup {[tau |-> tauLimit, plan |-> NoFiring(d)]}

\* A leap drawn from plans is applied when it is one of good; a draw outside
\* good is retried, and in the end the step is done exactly.
LeapOutcomes(m, d, tauLimit, plans, good) ==
  UNION {IF good = plans THEN accepted
         ELSE HalveAndRetry(accepted, ExactProposals(m, d, tauLimit), MaxRetries) :
         accepted \in {AcceptedLeaps(m, d, tauLimit, good)}}

\* Approximate leaping: a leap is applied only when no population would go
\* negative.
LeapProposals(m, d, tauLimit) ==
  IF NoRate(m, d) THEN {[tau |-> tauLimit, plan |-> NoFiring(d)]}
  ELSE UNION {UNION {LeapOutcomes(m, d, tauLimit, plans, good) :
                     good \in {{k \in plans : Feasible(m, d, k)}}} :
              plans \in {LeapPlans(m, d)}}

CalculateProposedTau(m, d, tauLimit) ==
  IF d.solver = "SSA" THEN ExactProposals(m, d, tauLimit)
  ELSE LeapProposals(m, d, tauLimit)

Min(a, b) == IF a < b THEN a ELSE b

\* One value per sample time not yet recorded and not after CurrentTime.
RecordObservables(m) ==
  LET row == m.trajectories[m.curRealization]
      upto == Min(samples, (m.CurrentTime \div 2) + 1)
      more == IF upto > Len(row) THEN upto - Len(row) ELSE 0
  IN [m EXCEPT !.trajectories[m.curRealization] =
                   row \o [i \in 1 .. more |-> m.species],
               !.SamplingParams = Len(row) + more,
               !.maxFill = IF more > m.maxFill THEN more ELSE m.maxFill]

ExecuteReactions(m, d, plan) ==
  LET next == ApplyPlan(m.species, d, plan)
  IN [m EXCEPT !.species = next,
               !.crossed = m.crossed \/ next.Y > TRIGGER_LEVEL,
               !.inForce = [k \in 1 .. samples |->
                              IF SampleTick(k - 1) >= m.CurrentTime
                              THEN next ELSE m.inForce[k]]]

UpdateTriggeredEvents(m, d) ==
  LET now == Trigger(d.event, m.species)
      edge == now /\ ~m.lastTrigger
      arm == edge /\ (d.event.persistent \/ ~m.firedOnce)
  IN [m EXCEPT !.lastTrigger = now,
               !.scheduled = IF arm THEN m.scheduled \cup {m.CurrentTime + d.event.delay}
                             ELSE m.scheduled]

\* the proposed time is never assigned to the clock
AdvanceNoClock(m, d, p) ==
  \E m3 \in {RecordObservables(m)} :
    IF m3.CurrentTime < duration
    THEN \E m4 \in {ExecuteReactions(m3, d, p.plan)} :
           solver' = UpdateTriggeredEvents(m4, d)
    ELSE solver' = m3

\* the observables are recorded after the reactions are executed
AdvanceRecordLate(m, d, p) ==
  \E m3 \in {[m EXCEPT !.CurrentTime = p.tau]} :
    IF m3.CurrentTime < duration
    THEN \E m4 \in {RecordObservables(ExecuteReactions(m3, d, p.plan))} :
           solver' = UpdateTriggeredEvents(m4, d)
    ELSE solver' = RecordObservables(m3)

\* StepOnce() from "CurrentTime = newTau" on, for the proposal p:
\*   CurrentTime = newTau; RecordObservables(...);
\*   if (CurrentTime < duration) { ExecuteReactions(); UpdateTriggeredEvents(); }
Advance(m, d, p) ==
  \E m3 \in {RecordObservables([m EXCEPT !.CurrentTime = p.tau])} :
    IF m3.CurrentTime < duration
    THEN \E m4 \in {ExecuteReactions(m3, d, p.plan)} :
           solver' = UpdateTriggeredEvents(m4, d)
    ELSE solver' = m3

\* What the propensities are computed from, for the record.
NoteRates(m) ==
  [m EXCEPT !.staleRate = m.staleRate \/ DueEvents(m) # {},
            !.rateKi = m.params.Ki]

\* the proposal is computed before the scheduled events are executed
StepOnceRatesFirst(m, d) ==
  \E m0 \in {NoteRates(m)} :
  \E p \in CalculateProposedTau(m0, d, TimeOfNextEvent(m0)) :
  \E m1 \in {ExecuteScheduledEvents(m0, d)} :
    Advance(m1, d, p)

\* StepOnce() on solver m:
\*   timeOfNextEvent = ExecuteScheduledEvents(duration);
\*   newTau = CalculateProposedTau(timeOfNextEvent); ...
StepOnceOf(m, d) ==
  \E m1 \in {ExecuteScheduledEvents(m, d)} :
  \E m2 \in {NoteRates(m1)} :
  \E p \in CalculateProposedTau(m2, d, TimeOfNextEvent(m2)) :
    Advance(m2, d, p)

Init ==
  /\ lib \in Libraries
  /\ pc = "start"
  /\ solver = CreateSolver(Description(lib))

StartRealization ==
  /\ pc = "start"
  /\ solver' = StartRealizationOf(solver, Description(lib))
  /\ pc' = "solve"
  /\ UNCHANGED lib

\* SolveOnce(): while (CurrentTime < duration) StepOnce();
StepOnce ==
  /\ pc = "solve"
  /\ solver.CurrentTime < duration
  /\ StepOnceOf(solver, Description(lib))
  /\ UNCHANGED <<lib, pc>>

NextRealization ==
  /\ pc = "solve"
  /\ solver.CurrentTime >= duration
  /\ solver.curRealization < runs
  /\ solver' = [solver EXCEPT !.curRealization = solver.curRealization + 1]
  /\ pc' = "start"
  /\ UNCHANGED lib

SolveReturns ==
  /\ pc = "solve"
  /\ solver.CurrentTime >= duration
  /\ solver.curRealization >= runs
  /\ pc' = "done"
  /\ UNCHANGED <<lib, solver>>

Next == StartRealization \/ StepOnce \/ NextRealization \/ SolveReturns

\* run_cms: Solve(), every realization of the ensemble.
InitCms == Init /\ lib = "cms"

SpecSolve == InitCms /\ [][Next]_vars

\* Any of the three descriptions, up to the end of its first realization.
NextOnce == StartRealization \/ StepOnce

SpecSolveOnce == Init /\ [][NextOnce]_vars

\* The loops are plain sequential code: a step that can be taken is taken.
FairSolveOnce == SpecSolveOnce /\ WF_vars(NextOnce)

\* ------------------------------------------------------- properties
sp == solver.species
model == Description(lib)
row == solver.trajectories[solver.curRealization]
Finished == pc = "solve" /\ solver.CurrentTime >= duration
Living(pop) == pop.S + pop.E + pop.I + pop.R

\* C1 as stated: the sum S+E+Y+A+I+R keeps its initial value (the whole
\* population) in every state of a realization.
C1_SixSpeciesConserved ==
  sp.S + sp.E + sp.Y + sp.A + sp.I + sp.R = TOTAL_POPULATION

\* C1 amended: the sum S+E+I+R (Y and A left out as well as C: all three
\* only count) keeps its initial value, the whole population, in every
\* state of a realization and in every recorded sample.
C1_LivingConserved ==
  /\ Living(sp) = TOTAL_POPULATION
  /\ \A k \in 1 .. Len(row) : Living(row[k]) = TOTAL_POPULATION

C1_Witness == sp.A > 0 /\ sp.Y > 0 /\ sp.R > 0

\* C2: no species population is negative, in the state of a realization or
\* in a recorded sample, under the exact algorithm and under leaping.
C2_NonNegative ==
  /\ \A s \in Species : sp[s] >= 0
  /\ \A k \in 1 .. Len(row) : \A s \in Species : row[k][s] >= 0

\* a leaping run that has emptied S, E and I
C2_Witness ==
  /\ model.solver # "SSA"
  /\ sp.S = 0 /\ sp.E = 0 /\ sp.I = 0 /\ sp.R = TOTAL_POPULATION

\* C3: the event never fires before Y has exceeded the trigger level; once
\* Y has, the firing is pending or done before the next propensities, and at
\* the end of the realization it has fired exactly once; Ki changes value as
\* often as the event fires, from its initial value to the event's value
\* (R0/6 to 0.8/6 in the CMS and GillesPy2 descriptions).
C3_FiresOnce ==
  /\ solver.firings <= 1
  /\ solver.kiChanges = solver.firings
  /\ solver.firings = 1 => solver.crossed
  /\ solver.crossed <=> sp.Y > TRIGGER_LEVEL
  /\ (pc = "solve" /\ solver.crossed) =>
        \/ solver.firings = 1
        \/ solver.scheduled # {} /\ solver.CurrentTime < duration
  /\ (Finished /\ solver.crossed) => solver.firings = 1
  /\ solver.params.Ki = IF solver.firings = 0 THEN model.params.Ki
                        ELSE model.event.value
  /\ lib \in {"cms", "gillespy"} =>
        solver.params.Ki = IF solver.firings = 0
                           THEN RDiv(R0, RInt(MEAN_INFECTIOUS_PERIOD))
                           ELSE RDiv(DISTANCING_R0, RInt(MEAN_INFECTIOUS_PERIOD))

\* the event fired and the realization went on to its end
C3_Witness ==
  /\ lib = "cms" /\ Finished
  /\ solver.firings = 1 /\ solver.kiChanges = 1
  /\ sp.R > 0

\* C4: when no reaction has a positive propensity, StepOnce takes the clock
\* to the end time and changes no population.
ZeroRateJump ==
  (pc = "solve" /\ ~Finished /\ NoRate(ExecuteScheduledEvents(solver, model), model))
    => (solver'.CurrentTime = duration /\ solver'.species = solver.species)

\* C4: every realization reaches the end time, and once there nothing of
\* it changes any more.
C4_Terminates ==
  /\ <>Finished
  /\ [][ZeroRateJump]_vars
  /\ [][Finished => (Finished' /\ solver'.species = solver.species
                     /\ row' = row)]_vars

\* finished by a jump from a0 = 0 over at least two sample times
C4_Witness ==
  /\ Finished /\ sp.E = 0 /\ sp.I = 0
  /\ solver.maxFill >= 2
  /\ row[samples] = row[samples - 1] /\ row[samples] = sp

\* C6: one value per sample time, in grid order, each the populations set
\* by the latest jump record before the sample time (the initial values
\* when there is none); the recorded series is complete at the end.
C6_Resampled ==
  /\ Len(row) = solver.SamplingParams
  /\ Len(row) <= samples
  /\ \A k \in 1 .. Len(row) : row[k] = solver.inForce[k]
  /\ Finished => Len(row) = samples

\* one time advance filled several sample times, after a jump
C6_Witness ==
  /\ Finished /\ solver.maxFill >= 2
  /\ row[1] # row[samples]

\* C7: a realization that has been started and has not stepped
FreshStart == pc = "solve" /\ row = <<>>

C7_StartsFromModel ==
  /\ FreshStart =>
       /\ solver.species = model.species
       /\ solver.params = model.params
       /\ solver.CurrentTime = 0
       /\ solver.scheduled = {} /\ ~solver.lastTrigger /\ ~solver.firedOnce
  /\ \A r \in 1 .. runs :
       /\ r < solver.curRealization =>
            /\ Len(solver.trajectories[r]) = samples
            /\ solver.trajectories[r][1] = model.species
       /\ r > solver.curRealization => solver.trajectories[r] = <<>>

C8_RatesAfterEvents ==
  /\ ~solver.staleTrig
  /\ ~solver.staleRate
  /\ solver.firings >= 1 =>
       /\ solver.params.Ki = model.event.value
       /\ solver.rateKi = model.event.value

\* propensities computed from the new Ki, and a step taken with them
C8_Witness ==
  /\ lib = "cms" /\ solver.firings = 1
  /\ solver.rateKi = CmsEvent.value
  /\ solver.CurrentTime < duration

C9_Laws ==
  /\ Living(sp) = TOTAL_POPULATION
  /\ sp.C = sp.I + sp.R
  /\ sp.C = sp.Y + sp.A + INITIAL_INFECTIOUS
  /\ Living(sp) # 0

C9_Monotone ==
  pc = "solve" =>
    /\ solver'.species.Y >= sp.Y /\ solver'.species.A >= sp.A
    /\ solver'.species.C >= sp.C /\ solver'.species.R >= sp.R

\* C9: in every state S+E+I+R is the whole population (so never zero),
\* C = I+R and C = Y+A+INITIAL_INFECTIOUS; within a realization Y, A, C and
\* R never decrease.
C9_Conservation == []C9_Laws /\ [][C9_Monotone]_vars

C9_Witness == sp.S = 0 /\ sp.Y > 0 /\ sp.A > 0 /\ sp.I > 0 /\ sp.R > 0

\* What C10 compares: initial populations, the stoichiometry, rate
\* expression and rate constant of each reaction, and the event.
Network(d) ==
  [species |-> d.species,
   reactions |-> [j \in DOMAIN d.reactions |->
                    [reactants |-> [s \in Species |-> Count(d.reactions[j].reactants, s)],
                     products |-> [s \in Species |-> Count(d.reactions[j].products, s)],
                     rate |-> d.reactions[j].rate,
                     factors |-> d.reactions[j].factors,
                     denom |-> d.reactions[j].denom,
                     constant |-> d.params[d.reactions[j].rate]]],
   event |-> [species |-> d.event.species, level |-> d.event.level,
              delay |-> d.event.delay, target |-> d.event.target,
              value |-> d.event.value]]

\* C10: the description being run defines the same network as each of the
\* other two, and the parameters in force are those the CMS description
\* would have at this point.
C10_SameNetwork ==
  /\ \A l \in Libraries : Network(Description(l)) = Network(model)
  /\ \A j \in ReactionIds(model) :
       solver.params[model.reactions[j].rate] =
         IF model.reactions[j].rate = "Ki" /\ solver.firings >= 1
         THEN CmsModel.event.value
         ELSE CmsModel.params[model.reactions[j].rate]

====
